---- MODULE Spec2Model ----
(***************************************************************************)
(* A model of allel/stats/admixture.py (h_hat, patterson_f2, patterson_f3, *)
(* patterson_d, the blockwise wrappers and the delete-one jackknife).      *)
(*                                                                         *)
(* Numbers.  A float is modelled by its exact value: a rational n/d, one   *)
(* of the IEEE specials nan, +inf, -inf, or a surd (n/d) * sqrt(rn/rd)     *)
(* (the only irrational values the code produces are se = sqrt(sv) and     *)
(* z = m / se).  Rounding is not modelled.  Zero carries no sign: every    *)
(* divisor in the code is an integer, a sum of non-negative terms or a     *)
(* square root, so a negative zero never reaches a denominator.            *)
(***************************************************************************)
EXTENDS Integers, Sequences, FiniteSets, TLC

\* ------------------------------------------------------------------ bounds

\* Largest allele number (ref + alt) of a row of an input allele-counts array.
MaxAN == 3
\* Largest single allele count in an input of h_hat.
MaxCount == 3
\* Largest number of variants (rows) of an input allele-counts array.
MaxRows == 2
\* Largest number of variants of an input of a blockwise wrapper.
MaxVariants == 4
\* Largest block length handed to a blockwise wrapper.
MaxBlen == 2
\* Longest series handed directly to jackknife.
MaxN == 3
\* Largest value in a series handed directly to jackknife as a single array.
MaxVal == 2
\* Largest value in a series handed directly to jackknife inside a tuple.
MaxTupleVal == 1
\* Largest number of genotype calls (variants x samples) in a genotype array.
MaxCalls == 2
\* Largest ploidy of a genotype array.
MaxPloidy == 3
\* Largest allele index in a genotype call.
MaxAllele == 2
\* Missing alleles are coded -1 .. -MaxMissing.
MaxMissing == 1

\* ------------------------------------------------------------- arithmetic

Abs(a) == IF a < 0 THEN -a ELSE a

RECURSIVE GCD(_, _)
GCD(a, b) == IF b = 0 THEN a ELSE GCD(b, a % b)

\* The rational n/d (d # 0) in lowest terms with a positive denominator.
Fin(n, d) ==
    LET g == GCD(Abs(n), Abs(d))
        s == IF d < 0 THEN -1 ELSE 1
    IN  [k |-> "fin", n |-> (s * n) \div g, d |-> Abs(d) \div g, rn |-> 1, rd |-> 1]

Int2Val(a) == [k |-> "fin", n |-> a, d |-> 1, rn |-> 1, rd |-> 1]
Zero == Int2Val(0)
NaN  == [k |-> "nan",  n |-> 0, d |-> 1, rn |-> 1, rd |-> 1]
PInf == [k |-> "pinf", n |-> 0, d |-> 1, rn |-> 1, rd |-> 1]
NInf == [k |-> "ninf", n |-> 0, d |-> 1, rn |-> 1, rd |-> 1]
\* numpy.ma.masked: what a reduction over a wholly masked array returns.
Masked == [k |-> "masked", n |-> 0, d |-> 1, rn |-> 1, rd |-> 1]

IsFin(x) == x.k = "fin"
IsInf(x) == x.k \in {"pinf", "ninf"}
\* -1, 0 or 1; only asked of values that are not nan.
Sign(x) ==
    CASE x.k = "pinf" -> 1
      [] x.k = "ninf" -> -1
      [] OTHER -> IF x.n > 0 THEN 1 ELSE IF x.n < 0 THEN -1 ELSE 0

SignedInf(s) == IF s > 0 THEN PInf ELSE NInf

Neg(x) ==
    CASE x.k = "fin"  -> [x EXCEPT !.n = -x.n]
      [] x.k = "pinf" -> NInf
      [] x.k = "ninf" -> PInf
      [] OTHER -> x

Add(x, y) ==
    CASE x.k = "masked" \/ y.k = "masked" -> Masked
      [] x.k = "nan" \/ y.k = "nan" -> NaN
      [] IsInf(x) /\ IsInf(y) -> IF x.k = y.k THEN x ELSE NaN
      [] IsInf(x) -> x
      [] IsInf(y) -> y
      [] OTHER ->
            LET g == GCD(x.d, y.d)
            IN  Fin(x.n * (y.d \div g) + y.n * (x.d \div g), (x.d \div g) * y.d)

Sub(x, y) == Add(x, Neg(y))

Mul(x, y) ==
    CASE x.k = "masked" \/ y.k = "masked" -> Masked
      [] x.k = "nan" \/ y.k = "nan" -> NaN
      [] IsInf(x) \/ IsInf(y) ->
            IF Sign(x) * Sign(y) = 0 THEN NaN ELSE SignedInf(Sign(x) * Sign(y))
      [] OTHER ->
            LET g == GCD(Abs(x.n), y.d)
                h == GCD(Abs(y.n), x.d)
            IN  Fin((x.n \div g) * (y.n \div h), (x.d \div h) * (y.d \div g))

\* IEEE true division: x/0 is an infinity of x's sign, 0/0 and inf/inf are nan.
Div(x, y) ==
    CASE x.k = "masked" \/ y.k = "masked" -> Masked
      [] x.k = "nan" \/ y.k = "nan" -> NaN
      [] IsInf(x) /\ IsInf(y) -> NaN
      [] IsInf(y) -> Zero
      [] IsInf(x) -> IF Sign(y) < 0 THEN Neg(x) ELSE x
      [] y.n = 0 -> IF x.n = 0 THEN NaN ELSE SignedInf(Sign(x))
      [] OTHER ->
            LET g == GCD(Abs(x.n), Abs(y.n))
                h == GCD(x.d, y.d)
            IN  Fin((x.n \div g) * (y.d \div h), (x.d \div h) * (y.n \div g))

Sq(x) == Mul(x, x)

\* The integer square root, by Newton's iteration from above.
RECURSIVE ISqrtFrom(_, _)
ISqrtFrom(a, r) ==
    LET next == (r + a \div r) \div 2
    IN  IF next >= r THEN r ELSE ISqrtFrom(a, next)
ISqrt(a) == IF a = 0 THEN 0 ELSE ISqrtFrom(a, a)
IsSquare(a) == ISqrt(a) * ISqrt(a) = a

\* The exact square root of a rational n/d in lowest terms: a rational when
\* n and d are squares, otherwise the surd [k |-> "surd", n, d, rn, rd]
\* standing for (n/d) * sqrt(rn/rd), here 1 * sqrt(x).
Sqrt(x) ==
    CASE x.k \in {"nan", "ninf", "masked"} -> IF x.k = "masked" THEN Masked ELSE NaN
      [] x.k = "pinf" -> PInf
      [] x.n < 0 -> NaN
      [] IsSquare(x.n) /\ IsSquare(x.d) -> Fin(ISqrt(x.n), ISqrt(x.d))
      [] OTHER -> [k |-> "surd", n |-> 1, d |-> 1, rn |-> x.n, rd |-> x.d]

\* x / y where y may be a surd sqrt(q): x / sqrt(q) = (x / q) * sqrt(q).
DivBySqrt(x, y) ==
    IF y.k # "surd" THEN Div(x, y)
    ELSE CASE x.k \in {"nan", "masked"} -> x
           [] IsInf(x) -> x
           [] x.n = 0 -> Zero
           [] OTHER ->
                LET c == Div(x, Fin(y.rn, y.rd))
                IN  [k |-> "surd", n |-> c.n, d |-> c.d, rn |-> y.rn, rd |-> y.rd]

\* ---------------------------------------------------------------- arrays

RECURSIVE SumSeq(_)
SumSeq(s) == IF s = <<>> THEN Zero ELSE Add(Head(s), SumSeq(Tail(s)))

\* The subsequence of s at the positions p with keep[p].
RECURSIVE Compress(_, _)
Compress(s, keep) ==
    IF s = <<>> THEN <<>>
    ELSE (IF Head(keep) THEN <<Head(s)>> ELSE <<>>) \o Compress(Tail(s), Tail(keep))

NotMask(msk) == [p \in 1..Len(msk) |-> ~msk[p]]
Zeros(n) == [p \in 1..n |-> FALSE]

\* numpy.ma reductions: over the elements that are not masked; masked when
\* none is left.
MaSum(s, msk) ==
    LET u == Compress(s, NotMask(msk))
    IN  IF u = <<>> /\ s # <<>> THEN Masked ELSE SumSeq(u)

\* Mutant: the mean divides by the full length, masked elements included.
MaMean_FullLength(s, msk) ==
    LET u == Compress(s, NotMask(msk))
    IN  IF u = <<>> THEN (IF s = <<>> THEN NaN ELSE Masked)
        ELSE Div(SumSeq(u), Int2Val(Len(s)))

MaMean(s, msk) ==
    LET u == Compress(s, NotMask(msk))
    IN  IF u = <<>> THEN (IF s = <<>> THEN NaN ELSE Masked)
        ELSE Div(SumSeq(u), Int2Val(Len(u)))

\* ndarray.mean() and numpy.sum() of a plain array.
Mean(s) == IF s = <<>> THEN NaN ELSE Div(SumSeq(s), Int2Val(Len(s)))

\* The statistics handed to jackknife: numpy.mean and numpy.sum on one array,
\* and the wrappers' lambda, sum(t) / sum(b), on two.
Statistics1 == {"mean", "sum"}
Statistics2 == {"ratio"}

ApplyStatistic(stat, vals, msks) ==
    CASE stat = "mean"  -> MaMean(vals[1], msks[1])
      [] stat = "sum"   -> MaSum(vals[1], msks[1])
      [] stat = "ratio" -> Div(MaSum(vals[1], msks[1]), MaSum(vals[2], msks[2]))

\* ----------------------------------------------------------------- state

VARIABLES
    fn,         \* the function called
    pc,         \* the position in it
    err,        \* the exception raised, "none" while there is none
    aca, acb, acc, acd,   \* allele-counts arguments
    blen, normed,         \* the blockwise wrappers' arguments
    g,          \* the genotype array argument of the gt predicates
    out,        \* the boolean array each gt predicate called has returned
    loc,        \* the per-variant and per-block arrays computed so far
    values,     \* jackknife: the input series, one per array of the tuple
    statistic,  \* jackknife: the statistic
    mask,       \* jackknife: the mask of each masked_values array
    i,          \* jackknife: the loop index
    k,          \* jackknife: the position in the inner loop over the arrays
    x,          \* jackknife: the replicate just computed
    vj,         \* jackknife: the replicates
    m, se       \* jackknife: the mean and the standard error returned

vars == <<fn, pc, err, aca, acb, acc, acd, blen, normed, g, out, loc,
          values, statistic, mask, i, k, x, vj, m, se>>

acvars == <<aca, acb, acc, acd, blen, normed, g, out>>
jkvars == <<values, statistic, mask, i, k, x, vj, m, se>>

\* An allele-counts array: nc columns, rows of nc counts each.
NoArray == [nc |-> 0, rows |-> <<>>]
\* No local assigned yet (every array that is assigned has a row or more).
NoLoc == [a |-> <<>>, b |-> <<>>, c |-> <<>>, d |-> <<>>,
          sa |-> <<>>, sb |-> <<>>, sc |-> <<>>,
          ha |-> <<>>, hb |-> <<>>, hc |-> <<>>,
          num |-> <<>>, den |-> <<>>, T |-> <<>>, B |-> <<>>,
          x |-> <<>>, vb |-> <<>>, z |-> NaN]

\* No genotype array passed, no gt predicate called.
NoGenotypes == [ndim |-> 0, shape2 |-> 0, calls |-> <<>>]
NoOut == [nm \in {} |-> <<>>]
GtIdle == g = NoGenotypes /\ out = NoOut

\* ------------------------------------------------------------- jackknife

\* len(values[0]) / len(values)
n == Len(values[1])

\* Mutant: the masks the caller's arrays came with are kept.
ResetMask_Keep(old, len) == old
\* m.mask = np.zeros(m.shape, dtype=bool)
ResetMask(old, len) == Zeros(len)
\* m.mask[i] = True
MaskAt(msk, idx) == [msk EXCEPT ![idx] = TRUE]
\* Mutant: the element is never restored.
UnmaskAt_Skip(msk, idx) == msk
\* m.mask[i] = False
UnmaskAt(msk, idx) == [msk EXCEPT ![idx] = FALSE]

\* Lines 255-266: wrap the input(s) as masked arrays, clear every mask.
jk_setup ==
    /\ pc = "jk_setup"
    /\ mask' = [s \in 1..Len(values) |-> ResetMask(mask[s], n)]
    /\ vj' = <<>>
    /\ i' = 0
    /\ pc' = "jk_loop"
    /\ UNCHANGED <<fn, err, acvars, loc, values, statistic, k, x, m, se>>

\* Line 268: for i in range(n)
jk_loop ==
    /\ pc = "jk_loop"
    /\ IF i < n THEN pc' = "jk_mask" /\ k' = 1
                ELSE pc' = "jk_final" /\ k' = k
    /\ UNCHANGED <<fn, err, acvars, loc, values, statistic, mask, i, x, vj, m, se>>

\* Lines 272-273, 278: exclude element i of the next array.
jk_mask ==
    /\ pc = "jk_mask"
    /\ mask' = [mask EXCEPT ![k] = MaskAt(mask[k], i + 1)]
    /\ IF k < Len(values) THEN k' = k + 1 /\ pc' = pc
                          ELSE k' = 1 /\ pc' = "jk_eval"
    /\ UNCHANGED <<fn, err, acvars, loc, values, statistic, i, x, vj, m, se>>

\* Lines 274, 279: x = statistic(*masked_values)
jk_eval ==
    /\ pc = "jk_eval"
    /\ x' = ApplyStatistic(statistic, values, mask)
    /\ pc' = "jk_unmask"
    /\ UNCHANGED <<fn, err, acvars, loc, values, statistic, mask, i, k, vj, m, se>>

\* Lines 275-276, 280: restore element i of the next array.
jk_unmask ==
    /\ pc = "jk_unmask"
    /\ mask' = [mask EXCEPT ![k] = UnmaskAt(mask[k], i + 1)]
    /\ IF k < Len(values) THEN k' = k + 1 /\ pc' = pc
                          ELSE k' = 1 /\ pc' = "jk_append"
    /\ UNCHANGED <<fn, err, acvars, loc, values, statistic, i, x, vj, m, se>>

\* Line 282: vj.append(x), and on to the next index.
jk_append ==
    /\ pc = "jk_append"
    /\ vj' = Append(vj, x)
    /\ i' = i + 1
    /\ pc' = "jk_loop"
    /\ UNCHANGED <<fn, err, acvars, loc, values, statistic, mask, k, x, m, se>>

\* Mutant: floor division, as without "from __future__ import division".
BiasFactor_Floor(len) == Int2Val((len - 1) \div len)
\* (n - 1) / n, true division of two Python ints.
BiasFactor(len) == Fin(len - 1, len)

\* Line 286: sv = ((n - 1) / n) * np.sum((vj - m) ** 2)
JackknifeSV(len, reps, mean) ==
    Mul(BiasFactor(len), SumSeq([p \in 1..Len(reps) |-> Sq(Sub(reps[p], mean))]))

\* Lines 284-288.  np.array(vj) turns a masked replicate (n = 1 only) into a
\* plain float, nan or the constant's fill 0.0 depending on the numpy build.
\* With n = 0 line 286 divides the int n - 1 by the int 0.
jk_final ==
    /\ pc = "jk_final"
    /\ IF n = 0
       THEN /\ vj' = vj
            /\ m' = NaN
            /\ err' = "ZeroDivisionError"
            /\ pc' = "raised"
            /\ se' = se
       ELSE /\ \E fill \in {NaN, Zero} :
                 vj' = [p \in 1..Len(vj) |-> IF vj[p].k = "masked" THEN fill ELSE vj[p]]
            /\ m' = Mean(vj')
            /\ se' = Sqrt(JackknifeSV(n, vj', m'))
            /\ err' = err
            /\ pc' = "jk_return"
    /\ UNCHANGED <<fn, acvars, loc, values, statistic, mask, i, k, x>>

jackknife == jk_setup \/ jk_loop \/ jk_mask \/ jk_eval \/ jk_unmask \/ jk_append \/ jk_final

\* Series of length len over a set of values.
SeriesOf(S, len) == [1..len -> S]

IntVals(top) == {Int2Val(v) : v \in 0..top}

\* A caller's array may already be a masked array with an element masked, or a
\* plain array (no mask).
PreMasks(len) == {Zeros(len)} \cup {[p \in 1..len |-> p = q] : q \in 1..len}

InitJackknife ==
    /\ fn = "jackknife"
    /\ pc = "jk_setup"
    /\ err = "none"
    /\ GtIdle
    /\ aca = NoArray /\ acb = NoArray /\ acc = NoArray /\ acd = NoArray
    /\ blen = 1 /\ normed = TRUE
    /\ loc = NoLoc
    /\ \E len \in 0..MaxN :
         \/ /\ statistic \in Statistics1
            /\ \E s \in SeriesOf(IntVals(MaxVal) \cup {NaN}, len) : values = <<s>>
            /\ \E pm \in PreMasks(len) : mask = <<pm>>
         \/ /\ statistic \in Statistics2
            /\ \E s \in SeriesOf(IntVals(MaxTupleVal), len),
                  t \in SeriesOf(IntVals(MaxTupleVal), len) : values = <<s, t>>
            /\ \E pm \in PreMasks(len) : mask = <<pm, pm>>
    /\ i = 0 /\ k = 1 /\ x = NaN /\ vj = <<>> /\ m = NaN /\ se = NaN

SpecJackknife == InitJackknife /\ [][jackknife]_vars

\* ------------------------------------------------------------ estimators

NVariants(ac) == Len(ac.rows)

\* ac.sum(axis=1): the allele number of every row.
RowSum(ac) ==
    [r \in 1..NVariants(ac) |->
        LET row == ac.rows[r] IN SumSeq([j \in 1..Len(row) |-> Int2Val(row[j])])]

\* AlleleCountsArray.to_frequencies()[:, 1]: the alternate allele's share of
\* the row's allele number, 0/0 = nan where the row is empty.
AltFreq(ac) ==
    [r \in 1..NVariants(ac) |-> Div(Int2Val(ac.rows[r][2]), RowSum(ac)[r])]

\* check_dim0_aligned: "none", or the error raised when the leading
\* dimensions differ.
CheckDim0Aligned(arrs) ==
    IF \A j \in 1..Len(arrs) : NVariants(arrs[j]) = NVariants(arrs[1])
    THEN "none" ELSE "DimensionMismatchError"

\* assert ac.shape[1] == 2, 'only biallelic variants supported', for each
\* array in turn: a failing assert statement raises AssertionError.
CheckBiallelic(arrs) ==
    IF \A j \in 1..Len(arrs) : arrs[j].nc = 2 THEN "none" ELSE "AssertionError"

\* The input checks of patterson_f2, patterson_f3 and patterson_d: the asserts
\* first, then check_dim0_aligned.
CheckInputs(arrs) ==
    IF CheckBiallelic(arrs) # "none" THEN CheckBiallelic(arrs)
    ELSE CheckDim0Aligned(arrs)

\* Mutant: a row with allele number 0 or 1 is given 0 instead of nan.
HHatRow_Guarded(row) ==
    LET an == row[1] + row[2]
    IN  IF an <= 1 THEN Zero
        ELSE Div(Int2Val(row[1] * row[2]), Int2Val(an * (an - 1)))

\* Line 40 for one row: (ref * alt) / (an * (an - 1)), integers divided as floats.
HHatRow(row) ==
    LET an == row[1] + row[2]
    IN  Div(Int2Val(row[1] * row[2]), Int2Val(an * (an - 1)))

\* Lines 37-42.
HHat(ac) == [r \in 1..NVariants(ac) |-> HHatRow(ac.rows[r])]

\* Lines 33-34.
hh_check ==
    /\ pc = "hh_check"
    /\ IF CheckBiallelic(<<aca>>) # "none"
       THEN err' = CheckBiallelic(<<aca>>) /\ pc' = "raised"
       ELSE err' = err /\ pc' = "hh_compute"
    /\ UNCHANGED <<fn, acvars, loc, jkvars>>

\* Lines 37-42.
hh_compute ==
    /\ pc = "hh_compute"
    /\ loc' = [loc EXCEPT !.x = HHat(aca)]
    /\ pc' = "done"
    /\ UNCHANGED <<fn, err, acvars, jkvars>>

h_hat == hh_check \/ hh_compute

\* Mutant: the squared frequency difference without the heterozygosity terms.
PattersonF2_Squared(a, b, ha, sa, hb, sb) == Sq(Sub(a, b))

\* Line 86 for one variant.
PattersonF2(a, b, ha, sa, hb, sb) ==
    Sub(Sub(Sq(Sub(a, b)), Div(ha, sa)), Div(hb, sb))

\* Lines 67-71.
f2_check ==
    /\ pc = "f2_check"
    /\ IF CheckInputs(<<aca, acb>>) # "none"
       THEN err' = CheckInputs(<<aca, acb>>) /\ pc' = "raised"
       ELSE err' = err /\ pc' = "f2_compute"
    /\ UNCHANGED <<fn, acvars, loc, jkvars>>

\* Lines 74-83.
f2_compute ==
    /\ pc = "f2_compute"
    /\ loc' = [loc EXCEPT !.sa = RowSum(aca), !.sb = RowSum(acb),
                          !.ha = HHat(aca), !.hb = HHat(acb),
                          !.a = AltFreq(aca), !.b = AltFreq(acb)]
    /\ pc' = "f2_est"
    /\ UNCHANGED <<fn, err, acvars, jkvars>>

\* Lines 86-88.
f2_est ==
    /\ pc = "f2_est"
    /\ loc' = [loc EXCEPT !.x = [r \in 1..Len(loc.a) |->
                  PattersonF2(loc.a[r], loc.b[r], loc.ha[r], loc.sa[r],
                              loc.hb[r], loc.sb[r])]]
    /\ pc' = "done"
    /\ UNCHANGED <<fn, err, acvars, jkvars>>

patterson_f2 == f2_check \/ f2_compute \/ f2_est

\* Lines 143-144 for one variant.
PattersonF3T(a, b, c, hc, sc) == Sub(Mul(Sub(c, a), Sub(c, b)), Div(hc, sc))
PattersonF3B(hc) == Mul(Int2Val(2), hc)

\* Lines 125-131.
f3_check ==
    /\ pc = "f3_check"
    /\ IF CheckInputs(<<aca, acb, acc>>) # "none"
       THEN err' = CheckInputs(<<aca, acb, acc>>) /\ pc' = "raised"
       ELSE err' = err /\ pc' = "f3_compute"
    /\ UNCHANGED <<fn, acvars, loc, jkvars>>

\* Lines 134-140.
f3_compute ==
    /\ pc = "f3_compute"
    /\ loc' = [loc EXCEPT !.sc = RowSum(acc), !.hc = HHat(acc),
                          !.a = AltFreq(aca), !.b = AltFreq(acb),
                          !.c = AltFreq(acc)]
    /\ pc' = "f3_est"
    /\ UNCHANGED <<fn, err, acvars, jkvars>>

\* Lines 143-146.  Inside a blockwise wrapper the call returns to it.
f3_est ==
    /\ pc = "f3_est"
    /\ loc' = [loc EXCEPT
                 !.T = [r \in 1..Len(loc.c) |->
                          PattersonF3T(loc.a[r], loc.b[r], loc.c[r],
                                       loc.hc[r], loc.sc[r])],
                 !.B = [r \in 1..Len(loc.c) |-> PattersonF3B(loc.hc[r])]]
    /\ pc' = IF fn = "patterson_f3" THEN "done" ELSE "bf3_blocks"
    /\ UNCHANGED <<fn, err, acvars, jkvars>>

patterson_f3 == f3_check \/ f3_compute \/ f3_est

\* Mutant: a sum where the difference of A and B belongs.
PattersonDNum_Sum(a, b, c, d) == Mul(Add(a, b), Sub(c, d))

\* Lines 198-199 for one variant.
PattersonDNum(a, b, c, d) == Mul(Sub(a, b), Sub(c, d))
PattersonDDen(a, b, c, d) ==
    Mul(Sub(Add(a, b), Mul(Mul(Int2Val(2), a), b)),
        Sub(Add(c, d), Mul(Mul(Int2Val(2), c), d)))

\* Mutant: population D is left out of the alignment check.
D_Aligned_Three == CheckDim0Aligned(<<aca, acb, acc>>)

\* Line 189.
D_Aligned == CheckDim0Aligned(<<aca, acb, acc, acd>>)

\* Lines 181-189.
d_check ==
    /\ pc = "d_check"
    /\ IF CheckBiallelic(<<aca, acb, acc, acd>>) # "none"
       THEN err' = CheckBiallelic(<<aca, acb, acc, acd>>) /\ pc' = "raised"
       ELSE IF D_Aligned # "none"
            THEN err' = D_Aligned /\ pc' = "raised"
            ELSE err' = err /\ pc' = "d_freq"
    /\ UNCHANGED <<fn, acvars, loc, jkvars>>

\* Lines 192-195.
d_freq ==
    /\ pc = "d_freq"
    /\ loc' = [loc EXCEPT !.a = AltFreq(aca), !.b = AltFreq(acb),
                          !.c = AltFreq(acc), !.d = AltFreq(acd)]
    /\ pc' = "d_est"
    /\ UNCHANGED <<fn, err, acvars, jkvars>>

\* Lines 198-201.  Inside a blockwise wrapper the call returns to it.
d_est ==
    /\ pc = "d_est"
    /\ loc' = [loc EXCEPT
                 !.num = [r \in 1..Len(loc.a) |->
                            PattersonDNum(loc.a[r], loc.b[r], loc.c[r], loc.d[r])],
                 !.den = [r \in 1..Len(loc.a) |->
                            PattersonDDen(loc.a[r], loc.b[r], loc.c[r], loc.d[r])]]
    /\ pc' = IF fn = "patterson_d" THEN "done" ELSE "bd_blocks"
    /\ UNCHANGED <<fn, err, acvars, jkvars>>

patterson_d == d_check \/ d_freq \/ d_est

\* Rows <<ref, alt>> of non-negative counts with allele number up to MaxAN.
Rows2 == {row \in [1..2 -> 0..MaxAN] : row[1] + row[2] <= MaxAN}
\* Two rows that tell the variants of a longer array apart.
ProbeRows == {<<1, 1>>, <<0, MaxAN>>}

Biallelic(S, len) == {[nc |-> 2, rows |-> rr] : rr \in [1..len -> S]}
\* Arrays with one column too few or one too many.
NotBiallelic == {[nc |-> 1, rows |-> <<<<1>>>>],
                 [nc |-> 3, rows |-> [r \in 1..MaxRows |-> <<1, 1, 0>>]]}

\* Inputs of h_hat: every biallelic array up to MaxRows rows of counts up to
\* MaxCount.
ArraysFull ==
    (UNION {Biallelic([1..2 -> 0..MaxCount], len) : len \in 1..MaxRows}) \cup NotBiallelic
\* Inputs of the multi-population estimators: every one-row array, and
\* arrays of MaxRows probe rows.
ArraysSmall == Biallelic(Rows2, 1) \cup Biallelic(ProbeRows, MaxRows) \cup NotBiallelic

JkIdle ==
    /\ values = <<<<>>>> /\ statistic = "none" /\ mask = <<<<>>>>
    /\ i = 0 /\ k = 1 /\ x = NaN /\ vj = <<>> /\ m = NaN /\ se = NaN

InitEstimators ==
    /\ err = "none"
    /\ blen = 1 /\ normed = TRUE
    /\ loc = NoLoc
    /\ JkIdle
    /\ GtIdle
    /\ \/ /\ fn = "h_hat" /\ pc = "hh_check"
          /\ aca \in ArraysFull
          /\ acb = NoArray /\ acc = NoArray /\ acd = NoArray
       \/ /\ fn = "patterson_f2" /\ pc = "f2_check"
          /\ aca \in ArraysSmall /\ acb \in ArraysSmall
          /\ acc = NoArray /\ acd = NoArray
       \/ /\ fn = "patterson_f3" /\ pc = "f3_check"
          /\ aca \in ArraysSmall /\ acb \in ArraysSmall /\ acc \in ArraysSmall
          /\ acd = NoArray
       \/ /\ fn = "patterson_d" /\ pc = "d_check"
          /\ aca \in ArraysSmall /\ acb \in ArraysSmall
          /\ acc \in ArraysSmall /\ acd \in ArraysSmall

NextEstimators == h_hat \/ patterson_f2 \/ patterson_f3 \/ patterson_d

SpecEstimators == InitEstimators /\ [][NextEstimators]_vars

\* ------------------------------------------------------ blockwise wrappers

\* The entries of s that are not nan.
RECURSIVE DropNaN(_)
DropNaN(s) ==
    IF s = <<>> THEN <<>>
    ELSE (IF Head(s).k = "nan" THEN <<>> ELSE <<Head(s)>>) \o DropNaN(Tail(s))

\* np.nansum: nan entries count as zero.
NanSum(s) == SumSeq(DropNaN(s))
\* np.nanmean: the mean of the entries that are not nan, nan when there is none.
NanMean(s) == Mean(DropNaN(s))

WindowStatistic(stat, s) ==
    CASE stat = "nansum"  -> NanSum(s)
      [] stat = "nanmean" -> NanMean(s)

\* moving_statistic(values, statistic, size): the statistic over each
\* non-overlapping window of size consecutive values; a last window that
\* would be shorter is left out.
MovingStatistic(vals, stat, size) ==
    [b \in 1..(Len(vals) \div size) |->
        WindowStatistic(stat, SubSeq(vals, (b - 1) * size + 1, b * size))]

\* Mutant: the quotient upside down.
Ratios_Swapped(top, bot) == [b \in 1..Len(top) |-> Div(bot[b], top[b])]

\* Elementwise bsum / bsum (lines 220, 246).
Ratios(top, bot) == [b \in 1..Len(top) |-> Div(top[b], bot[b])]

\* Mutant: jackknife is handed the per-variant arrays, not the block sums.
JackknifeInput_PerVariant(top_bsum, bot_bsum) ==
    IF fn = "blockwise_patterson_d" THEN <<loc.num, loc.den>> ELSE <<loc.T, loc.B>>

\* The arrays handed to jackknife at lines 221 and 247: the block sums.
JackknifeInput(top_bsum, bot_bsum) == <<top_bsum, bot_bsum>>

\* z = m / se (lines 228, 249).
ZScore(mean, stderr) == DivBySqrt(mean, stderr)

\* Lines 217-226: the block series, and the call of jackknife on it.
bf3_blocks ==
    /\ pc = "bf3_blocks"
    /\ IF normed
       THEN LET T_bsum == MovingStatistic(loc.T, "nansum", blen)
                B_bsum == MovingStatistic(loc.B, "nansum", blen)
            IN  /\ loc' = [loc EXCEPT !.vb = Ratios(T_bsum, B_bsum)]
                /\ values' = JackknifeInput(T_bsum, B_bsum)
                /\ statistic' = "ratio"
       ELSE /\ loc' = [loc EXCEPT !.vb = MovingStatistic(loc.T, "nanmean", blen)]
            /\ values' = <<loc'.vb>>
            /\ statistic' = "mean"
    /\ mask' = [s \in 1..Len(values') |-> Zeros(Len(values'[s]))]
    /\ pc' = "jk_setup"
    /\ UNCHANGED <<fn, err, acvars, i, k, x, vj, m, se>>

\* Lines 228-229.
bf3_z ==
    /\ pc = "jk_return" /\ fn = "blockwise_patterson_f3"
    /\ loc' = [loc EXCEPT !.z = ZScore(m, se)]
    /\ pc' = "done"
    /\ UNCHANGED <<fn, err, acvars, jkvars>>

\* Lines 244-248: the block series, and the call of jackknife on it.
bd_blocks ==
    /\ pc = "bd_blocks"
    /\ LET num_bsum == MovingStatistic(loc.num, "nansum", blen)
           den_bsum == MovingStatistic(loc.den, "nansum", blen)
       IN  /\ loc' = [loc EXCEPT !.vb = Ratios(num_bsum, den_bsum)]
           /\ values' = JackknifeInput(num_bsum, den_bsum)
    /\ statistic' = "ratio"
    /\ mask' = [s \in 1..Len(values') |-> Zeros(Len(values'[s]))]
    /\ pc' = "jk_setup"
    /\ UNCHANGED <<fn, err, acvars, i, k, x, vj, m, se>>

\* Lines 249-250.
bd_z ==
    /\ pc = "jk_return" /\ fn = "blockwise_patterson_d"
    /\ loc' = [loc EXCEPT !.z = ZScore(m, se)]
    /\ pc' = "done"
    /\ UNCHANGED <<fn, err, acvars, jkvars>>

\* Inputs of the wrappers, len variants each.  One population runs over every
\* array of these rows (both alleles seen, one allele seen, no call at all),
\* a second over two alternating patterns, the others are constant.  Every
\* allele number is 0 or 2, which keeps the frequencies in {0, 1/2, 1, nan}.
BlockRows == {<<1, 1>>, <<0, 2>>, <<0, 0>>}
VariedArrays(len) == Biallelic(BlockRows, len)
PatternArrays(len) ==
    {[nc |-> 2, rows |-> [r \in 1..len |-> IF r % 2 = o THEN <<1, 1>> ELSE <<0, 2>>]]
        : o \in 0..1}
ConstArray(len, row) == [nc |-> 2, rows |-> [r \in 1..len |-> row]]

InitBlockwise ==
    /\ err = "none"
    /\ loc = NoLoc
    /\ JkIdle
    /\ GtIdle
    /\ blen \in 1..MaxBlen
    /\ \E len \in 1..MaxVariants :
         \/ /\ fn = "blockwise_patterson_f3" /\ pc = "f3_check"
            /\ normed \in BOOLEAN
            /\ acc \in VariedArrays(len)
            /\ aca \in PatternArrays(len)
            /\ acb = ConstArray(len, <<2, 0>>)
            /\ acd = NoArray
         \/ /\ fn = "blockwise_patterson_d" /\ pc = "d_check"
            /\ normed = TRUE
            /\ aca \in VariedArrays(len)
            /\ acb = ConstArray(len, <<0, 2>>)
            /\ acc \in PatternArrays(len)
            /\ acd = ConstArray(len, <<1, 1>>)

\* blockwise_patterson_f3 runs patterson_f3, bf3_blocks, jackknife, bf3_z;
\* blockwise_patterson_d runs patterson_d, bd_blocks, jackknife, bd_z.
NextBlockwise ==
    patterson_f3 \/ bf3_blocks \/ bf3_z \/ patterson_d \/ bd_blocks \/ bd_z \/ jackknife

SpecBlockwise == InitBlockwise /\ [][NextBlockwise]_vars

\* ------------------------------------------------------ genotype predicates

\* gt.py lines 152-153.
HAPLOID == 1
DIPLOID == 2

\* A genotype array is [ndim, shape2, calls]: calls lists the variants x
\* samples entries; with ndim = 3 each entry is a tuple of shape2 alleles, with
\* ndim = 2 each entry is one allele.

Raise(e) == [err |-> e, out |-> <<>>]
Return(o) == [err |-> "none", out |-> o]

\* _check_genotype_array, lines 159-176.
CheckGenotypeArray(a) ==
    IF a.ndim = 2
    THEN [err |-> "none", g |-> a.calls, ploidy |-> HAPLOID]
    ELSE IF a.ndim = 3
         THEN [err |-> "none",
               g |-> IF a.shape2 = HAPLOID
                     THEN [c \in 1..Len(a.calls) |-> a.calls[c][1]]
                     ELSE a.calls,
               ploidy |-> a.shape2]
         ELSE [err |-> "ArgumentError", g |-> a.calls, ploidy |-> 0]

\* is_called, lines 213-225.
IsCalledHaploid(al) == al >= 0
IsCalledDiploid(call) == (call[1] >= 0) /\ (call[2] >= 0)
IsCalledGeneral(call) == \A p \in 1..Len(call) : call[p] >= 0

\* is_missing, lines 264-278.
IsMissingHaploid(al) == al < 0
\* Mutant: a diploid call is missing only if both alleles are.
IsMissingDiploid_Both(call) == (call[1] < 0) /\ (call[2] < 0)
IsMissingDiploid(call) == (call[1] < 0) \/ (call[2] < 0)
IsMissingGeneral(call) == \E p \in 1..Len(call) : call[p] < 0

\* is_hom, lines 317-333.
IsHomHaploid(al) == TRUE
IsHomDiploid(call) == (call[1] >= 0) /\ (call[1] = call[2])
IsHomGeneral(call) ==
    \A p \in 2..Len(call) : (call[1] >= 0) /\ (call[1] = call[p])

\* is_het, lines 372-388.
IsHetHaploid(al) == FALSE
IsHetDiploid(call) == (call[1] >= 0) /\ (call[2] >= 0) /\ (call[1] # call[2])
IsHetGeneral(call) ==
    /\ \A p \in 1..Len(call) : call[p] >= 0
    /\ \E p \in 2..Len(call) : call[1] # call[p]

\* is_hom_ref, lines 428-440.
IsHomRefHaploid(al) == al = 0
IsHomRefDiploid(call) == (call[1] = 0) /\ (call[2] = 0)
IsHomRefGeneral(call) == \A p \in 1..Len(call) : call[p] = 0

\* is_hom_alt, lines 481-496.
IsHomAltHaploid(al) == al > 0
IsHomAltDiploid(call) == (call[1] > 0) /\ (call[1] = call[2])
IsHomAltGeneral(call) ==
    \A p \in 2..Len(call) : (call[1] > 0) /\ (call[1] = call[p])

\* The haploid, diploid and general branch of each predicate, on one entry.
BranchHaploid(name, al) ==
    CASE name = "is_called"  -> IsCalledHaploid(al)
      [] name = "is_missing" -> IsMissingHaploid(al)
      [] name = "is_hom"     -> IsHomHaploid(al)
      [] name = "is_het"     -> IsHetHaploid(al)
      [] name = "is_hom_ref" -> IsHomRefHaploid(al)
      [] name = "is_hom_alt" -> IsHomAltHaploid(al)
BranchDiploid(name, call) ==
    CASE name = "is_called"  -> IsCalledDiploid(call)
      [] name = "is_missing" -> IsMissingDiploid(call)
      [] name = "is_hom"     -> IsHomDiploid(call)
      [] name = "is_het"     -> IsHetDiploid(call)
      [] name = "is_hom_ref" -> IsHomRefDiploid(call)
      [] name = "is_hom_alt" -> IsHomAltDiploid(call)
BranchGeneral(name, call) ==
    CASE name = "is_called"  -> IsCalledGeneral(call)
      [] name = "is_missing" -> IsMissingGeneral(call)
      [] name = "is_hom"     -> IsHomGeneral(call)
      [] name = "is_het"     -> IsHetGeneral(call)
      [] name = "is_hom_ref" -> IsHomRefGeneral(call)
      [] name = "is_hom_alt" -> IsHomAltGeneral(call)

\* The predicates whose general branch indexes allele 0 (g[..., 0, None]),
\* which raises IndexError on an empty ploidy dimension.
IndexesAllele0 == {"is_hom", "is_het", "is_hom_alt"}

\* A predicate as a whole: the input check, then its branch on every entry.
Elementwise(a, name) ==
    LET chk == CheckGenotypeArray(a)
    IN  IF chk.err # "none" THEN Raise(chk.err)
        ELSE IF chk.ploidy = HAPLOID
             THEN Return([c \in 1..Len(chk.g) |-> BranchHaploid(name, chk.g[c])])
        ELSE IF chk.ploidy = DIPLOID
             THEN Return([c \in 1..Len(chk.g) |-> BranchDiploid(name, chk.g[c])])
        ELSE IF name \in IndexesAllele0 /\ chk.ploidy = 0 THEN Raise("IndexError")
        ELSE Return([c \in 1..Len(chk.g) |-> BranchGeneral(name, chk.g[c])])

IsCalled(a) == Elementwise(a, "is_called")
IsMissing(a) == Elementwise(a, "is_missing")
IsHom(a) == Elementwise(a, "is_hom")
IsHet(a) == Elementwise(a, "is_het")
IsHomRef(a) == Elementwise(a, "is_hom_ref")
IsHomAlt(a) == Elementwise(a, "is_hom_alt")

\* One call of a predicate on g: it raises, or its result is kept under the
\* predicate's name.
GtCall(name, res) ==
    /\ pc = "gt_call"
    /\ name \notin DOMAIN out
    /\ IF res.err # "none"
       THEN err' = res.err /\ pc' = "raised" /\ out' = out
       ELSE /\ out' = [nm \in DOMAIN out \cup {name} |->
                          IF nm = name THEN res.out ELSE out[nm]]
            /\ UNCHANGED <<err, pc>>
    /\ UNCHANGED <<fn, aca, acb, acc, acd, blen, normed, g, loc, jkvars>>

is_called == GtCall("is_called", IsCalled(g))
is_missing == GtCall("is_missing", IsMissing(g))
is_hom == GtCall("is_hom", IsHom(g))
is_het == GtCall("is_het", IsHet(g))
is_hom_ref == GtCall("is_hom_ref", IsHomRef(g))
is_hom_alt == GtCall("is_hom_alt", IsHomAlt(g))

Alleles == (-MaxMissing)..MaxAllele

\* Calls of ploidy p that tell the entries of a longer array apart: missing,
\* homozygous reference, and (for p >= 2) heterozygous.
ProbeCalls(p) ==
    {[q \in 1..p |-> -1], [q \in 1..p |-> 0], [q \in 1..p |-> IF q = 1 THEN 0 ELSE 1]}

\* Genotype arrays: 2-dimensional (haploid), 3-dimensional of ploidy 0 to
\* MaxPloidy, and arrays of 1 and of 4 dimensions.  Every single call, and
\* arrays of up to MaxCalls probe calls.
GenotypeArrays ==
    {[ndim |-> 2, shape2 |-> 0, calls |-> cc] :
        cc \in UNION {[1..len -> Alleles] : len \in 1..MaxCalls}}
    \cup UNION {{[ndim |-> 3, shape2 |-> p, calls |-> cc] :
                   cc \in [1..1 -> [1..p -> Alleles]]
                          \cup UNION {[1..len -> ProbeCalls(p)] : len \in 2..MaxCalls}} :
                p \in 0..MaxPloidy}
    \cup {[ndim |-> 1, shape2 |-> 0, calls |-> <<0, 1>>],
          [ndim |-> 4, shape2 |-> 0, calls |-> <<<<<<0>>>>>>]}

InitGenotype ==
    /\ fn = "gt" /\ pc = "gt_call" /\ err = "none"
    /\ aca = NoArray /\ acb = NoArray /\ acc = NoArray /\ acd = NoArray
    /\ blen = 1 /\ normed = TRUE
    /\ loc = NoLoc
    /\ JkIdle
    /\ g \in GenotypeArrays
    /\ out = NoOut

NextGenotype ==
    is_called \/ is_missing \/ is_hom \/ is_het \/ is_hom_ref \/ is_hom_alt

SpecGenotype == InitGenotype /\ [][NextGenotype]_vars

\* ------------------------------------------------- properties: jackknife

AllClear == \A s \in 1..Len(mask) : \A p \in 1..Len(mask[s]) : ~mask[s][p]

\* C1: when jackknife returns, every position of every series' mask is False
\* (no element remains excluded), and no step of the run changes the data
\* values of the input series.
C1_InputRestored ==
    /\ [](pc = "jk_return" => AllClear)
    /\ [][values' = values]_vars

C1_Witness ==
    pc = "jk_return" /\ Len(values) = 2 /\ Len(vj) = 3 /\ i = 3

\* C2: when the statistic is evaluated in iteration i, the replicates of
\* iterations 0..i-1 and no others have been recorded, and in every series
\* exactly position i is excluded; when the next iteration starts (and when the
\* loop ends) nothing is excluded.
C2_SequentialExclusion ==
    /\ pc = "jk_eval" =>
          /\ Len(vj) = i
          /\ i < n
          /\ \A s \in 1..Len(mask) : \A p \in 1..Len(mask[s]) :
                 mask[s][p] <=> (p = i + 1)
    /\ pc = "jk_loop" => AllClear /\ Len(vj) = i

C2_Witness ==
    pc = "jk_eval" /\ i = 2 /\ Len(values) = 2 /\ mask[2][3] /\ ~mask[1][1]

\* s without its element p (delete and shift).
Remove(s, p) == SubSeq(s, 1, p - 1) \o SubSeq(s, p + 1, Len(s))

\* The statistic over plain arrays.
PlainStatistic(stat, vals) ==
    CASE stat = "mean"  -> Mean(vals[1])
      [] stat = "sum"   -> SumSeq(vals[1])
      [] stat = "ratio" -> Div(SumSeq(vals[1]), SumSeq(vals[2]))

LeaveOneOut(p) ==
    PlainStatistic(statistic, [s \in 1..Len(values) |-> Remove(values[s], p)])

\* C3: for n >= 2 jackknife returns n replicates, replicate i being the
\* statistic over all elements but element i; m is their arithmetic mean and
\* se the square root of ((n-1)/n) * sum((replicate_i - m)^2).
C3_JackknifeResult ==
    (pc = "jk_return" /\ fn = "jackknife" /\ n >= 2) =>
        /\ Len(vj) = n
        /\ \A p \in 1..n : vj[p] = LeaveOneOut(p)
        /\ m = Div(SumSeq(vj), Int2Val(n))
        /\ se = Sqrt(Div(Mul(Int2Val(n - 1),
                             SumSeq([p \in 1..n |-> Sq(Sub(vj[p], m))])),
                         Int2Val(n)))

C3_Witness ==
    /\ pc = "jk_return" /\ fn = "jackknife" /\ n = 3 /\ statistic = "ratio"
    /\ values = <<<<Int2Val(0), Int2Val(0), Int2Val(1)>>,
                   <<Int2Val(0), Int2Val(1), Int2Val(1)>>>>
    /\ vj = <<Fin(1, 2), Int2Val(1), Int2Val(0)>>
    /\ m = Fin(1, 2) /\ se = [k |-> "surd", n |-> 1, d |-> 1, rn |-> 1, rd |-> 3]

\* C4: with statistic = mean on a single series of length n >= 2, m is the
\* sample mean of the series and there are n replicates.
C4_MeanOfMeans ==
    (pc = "jk_return" /\ fn = "jackknife" /\ statistic = "mean" /\ n >= 2) =>
        /\ m = Mean(values[1])
        /\ Len(vj) = n

C4_Witness ==
    /\ pc = "jk_return" /\ fn = "jackknife" /\ statistic = "mean" /\ n = 3
    /\ values[1] = <<Int2Val(0), Int2Val(1), Int2Val(2)>>
    /\ m = Int2Val(1) /\ vj[1] = Fin(3, 2)

\* ------------------------------------------------ properties: estimators

\* The allele-counts arguments of the function called.
Inputs ==
    CASE fn = "h_hat" -> <<aca>>
      [] fn = "patterson_f2" -> <<aca, acb>>
      [] fn = "patterson_f3" -> <<aca, acb, acc>>
      [] fn = "patterson_d" -> <<aca, acb, acc, acd>>
      [] OTHER -> <<>>

Validating == pc \in {"hh_check", "f2_check", "f3_check", "d_check"}

\* C5: patterson_d on four biallelic allele-counts arrays whose numbers of
\* variants are not all equal ends in a dimension-mismatch error raised by the
\* input checks: no frequency, num or den array is ever computed.
C5_DimensionMismatch ==
    ( /\ fn = "patterson_d"
      /\ \A j \in 1..4 : Inputs[j].nc = 2
      /\ \E j, h \in 1..4 : Len(Inputs[j].rows) # Len(Inputs[h].rows)
      /\ ~Validating )
    => /\ pc = "raised"
       /\ err = "DimensionMismatchError"
       /\ loc = NoLoc

C5_Witness ==
    /\ fn = "patterson_d" /\ pc = "raised" /\ err = "DimensionMismatchError"
    /\ Len(aca.rows) = 1 /\ Len(acb.rows) = 1 /\ Len(acc.rows) = 1
    /\ Len(acd.rows) = 2 /\ acd.nc = 2

\* C6 (as claimed): in h_hat, patterson_f2, patterson_f3 and patterson_d an
\* input array without exactly 2 columns makes the call fail with an
\* ArgumentError, raised by the input checks before anything is computed.
C6_ArgumentError ==
    ( /\ fn \in {"h_hat", "patterson_f2", "patterson_f3", "patterson_d"}
      /\ \E j \in 1..Len(Inputs) : Inputs[j].nc # 2
      /\ ~Validating )
    => /\ pc = "raised"
       /\ err = "ArgumentError"
       /\ loc = NoLoc

\* C7: swapping A and B negates num and leaves den unchanged at every
\* variant: num(A,B,C,D) = -num(B,A,C,D), den(A,B,C,D) = den(B,A,C,D).
C7_Antisymmetry ==
    (fn = "patterson_d" /\ pc = "done") =>
        /\ Len(loc.num) = Len(aca.rows) /\ Len(loc.den) = Len(aca.rows)
        /\ \A r \in 1..Len(aca.rows) :
             LET a == AltFreq(aca)[r]
                 b == AltFreq(acb)[r]
                 c == AltFreq(acc)[r]
                 d == AltFreq(acd)[r]
             IN  /\ loc.num[r] = Neg(PattersonDNum(b, a, c, d))
                 /\ loc.den[r] = PattersonDDen(b, a, c, d)

C7_Witness ==
    /\ fn = "patterson_d" /\ pc = "done"
    /\ aca.rows = <<<<1, 1>>, <<0, 3>>>> /\ acb.rows = <<<<1, 1>>, <<1, 1>>>>
    /\ acc.rows = <<<<0, 3>>, <<0, 3>>>> /\ acd.rows = <<<<1, 1>>, <<1, 1>>>>
    /\ loc.num = <<Zero, Fin(1, 4)>>
    /\ loc.den = <<Fin(1, 4), Fin(1, 4)>>

\* C10: h_hat on a biallelic array of non-negative counts raises nothing and
\* returns one value per row: (ref*alt) / (an*(an-1)) where an = ref + alt is
\* 2 or more, and a non-finite value where an <= 1, whatever the other rows.
C10_HHatDegenerate ==
    (fn = "h_hat" /\ aca.nc = 2) =>
        /\ err = "none" /\ pc # "raised"
        /\ pc = "done" =>
             /\ Len(loc.x) = Len(aca.rows)
             /\ \A r \in 1..Len(aca.rows) :
                  LET ref == aca.rows[r][1]
                      alt == aca.rows[r][2]
                      an  == ref + alt
                  IN  IF an <= 1
                      THEN loc.x[r].k \in {"nan", "pinf", "ninf"}
                      ELSE loc.x[r] = Fin(ref * alt, an * (an - 1))

C10_Witness ==
    /\ fn = "h_hat" /\ pc = "done"
    /\ aca.rows = <<<<0, 1>>, <<3, 1>>>>
    /\ loc.x = <<NaN, Fin(1, 4)>>

\* ------------------------------------------------- properties: blockwise

\* Block b of a per-variant array: blen consecutive variants.
Blk(s, b) == SubSeq(s, (b - 1) * blen + 1, b * blen)

\* The sum of the entries of s other than entry p.
SumBut(s, p) == SumSeq(Remove(s, p))

\* C8: with blen dividing the number n of variants, blockwise_patterson_d
\* returns, and vb and vj hold n/blen values each: vb[b] is the ratio of the
\* block sums of num and den over block b, and vj[b] the ratio of the sums
\* over all blocks but b.
C8_BlockCount ==
    (fn = "blockwise_patterson_d" /\ Len(aca.rows) % blen = 0) =>
        /\ pc # "raised"
        /\ pc = "done" =>
            LET nb == Len(aca.rows) \div blen
                nsum == [b \in 1..nb |-> NanSum(Blk(loc.num, b))]
                dsum == [b \in 1..nb |-> NanSum(Blk(loc.den, b))]
            IN  /\ Len(loc.vb) = nb
                /\ Len(vj) = nb
                /\ \A b \in 1..nb : loc.vb[b] = Div(nsum[b], dsum[b])
                /\ nb >= 2 =>
                     \A b \in 1..nb : vj[b] = Div(SumBut(nsum, b), SumBut(dsum, b))

C8_Witness ==
    /\ fn = "blockwise_patterson_d" /\ pc = "done"
    /\ Len(aca.rows) = 4 /\ blen = 2
    /\ Len(loc.vb) = 2 /\ Len(vj) = 2
    /\ loc.vb[1].k = "fin" /\ loc.vb[2].k = "fin" /\ loc.vb[1] # loc.vb[2]

\* z = m / se, stated through z * se = m where se is a surd.
ZIsQuotient ==
    IF se.k = "surd"
    THEN /\ m.k = "fin"
         /\ IF m.n = 0 THEN loc.z = Zero
            ELSE /\ loc.z.k = "surd"
                 /\ loc.z.rn = se.rn /\ loc.z.rd = se.rd
                 /\ Mul(Fin(loc.z.n, loc.z.d), Fin(se.rn, se.rd)) = m
    ELSE loc.z = Div(m, se)

\* What C9 says of blockwise_patterson_f3 whichever way vb is computed when
\* normed is false: vb has a value per block, blocksum(T)/blocksum(B) when
\* normed; jackknife ran over the block-level series; z = m / se.
C9_Common(VbPlain(_)) ==
    LET nb == Len(loc.T) \div blen
        Tsum == [b \in 1..nb |-> NanSum(Blk(loc.T, b))]
        Bsum == [b \in 1..nb |-> NanSum(Blk(loc.B, b))]
    IN  /\ Len(loc.vb) = nb
        /\ \A b \in 1..nb :
             IF normed THEN loc.vb[b] = Div(Tsum[b], Bsum[b]) ELSE VbPlain(b)
        /\ values = IF normed THEN <<Tsum, Bsum>> ELSE <<loc.vb>>
        /\ statistic = IF normed THEN "ratio" ELSE "mean"
        /\ Len(vj) = nb
        /\ nb >= 2 => \A p \in 1..nb : vj[p] = LeaveOneOut(p)
        /\ m = Mean(vj)
        /\ se = Sqrt(JackknifeSV(nb, vj, m))
        /\ ZIsQuotient

\* C9 (as claimed): with normed false, vb is the plain per-block mean of the
\* ratio: of T/B, or, reading "the ratio" as the statistic T itself, of T.
C9_AsClaimed ==
    (fn = "blockwise_patterson_f3" /\ pc = "done") =>
        LET ClaimedVb(b) ==
                \/ loc.vb[b] = Mean(Ratios(Blk(loc.T, b), Blk(loc.B, b)))
                \/ loc.vb[b] = Mean(Blk(loc.T, b))
        IN  C9_Common(ClaimedVb)

\* C9 (amended): with normed true, vb is blocksum(T)/blocksum(B); with normed
\* false, vb is the per-block mean of T over the variants whose T is not nan
\* (no ratio is formed); jackknife runs over the block-level series and the
\* wrapper returns (m, se, z, vb, vj) with z = m / se.
C9_BlockwiseF3 ==
    (fn = "blockwise_patterson_f3" /\ pc = "done") =>
        LET NanMeanVb(b) == loc.vb[b] = NanMean(Blk(loc.T, b))
        IN  C9_Common(NanMeanVb)

C9_Witness ==
    /\ fn = "blockwise_patterson_f3" /\ pc = "done" /\ ~normed /\ blen = 2
    /\ Len(loc.T) = 4
    /\ loc.T[1].k = "nan" /\ loc.T[2].k = "fin"
    /\ loc.vb[1] = loc.T[2]
    /\ se.k = "fin" /\ se.n # 0
    /\ loc.z.k = "fin" /\ loc.z.n # 0

\* ------------------------------------------------- properties: patterson_f2

\* Alternate-allele frequency, h and allele number of one row of counts.
RowFreq(row) == Div(Int2Val(row[2]), Int2Val(row[1] + row[2]))
RowH(row) ==
    Div(Int2Val(row[1] * row[2]),
        Int2Val((row[1] + row[2]) * (row[1] + row[2] - 1)))
RowS(row) == Int2Val(row[1] + row[2])

\* The f2 formula and its value on identical arrays.
C11_Formula(nonzero(_)) ==
    /\ Len(loc.x) = Len(aca.rows)
    /\ \A r \in 1..Len(aca.rows) :
         LET ra == aca.rows[r]
             rb == acb.rows[r]
         IN  /\ loc.x[r] = Sub(Sub(Sq(Sub(RowFreq(ra), RowFreq(rb))),
                                   Div(RowH(ra), RowS(ra))),
                               Div(RowH(rb), RowS(rb)))
             /\ aca = acb =>
                  /\ loc.x[r] = Sub(Sub(Zero, Div(RowH(ra), RowS(ra))),
                                    Div(RowH(rb), RowS(rb)))
                  /\ loc.x[r] = Mul(Int2Val(-2), Div(RowH(ra), RowS(ra)))
                  /\ nonzero(r)

\* C11 (as claimed): patterson_f2 returns (freqA - freqB)^2 - hA/sA - hB/sB
\* per variant, and on identical arrays the result at every variant is
\* -2*hA/sA and is not 0.
C11_AsClaimed ==
    (fn = "patterson_f2" /\ pc = "done") =>
        LET NeverZero(r) == loc.x[r] # Zero
        IN  C11_Formula(NeverZero)

\* C11 (amended): patterson_f2 returns (freqA - freqB)^2 - hA/sA - hB/sB per
\* variant; on identical arrays the result is -2*hA/sA, which is negative
\* where both alleles are counted, 0 where only one allele is counted and the
\* allele number is 2 or more, and nan where the allele number is 0 or 1.
C11_IdenticalArrays ==
    (fn = "patterson_f2" /\ pc = "done") =>
        LET ByCounts(r) ==
                LET ref == aca.rows[r][1]
                    alt == aca.rows[r][2]
                IN  IF ref + alt <= 1 THEN loc.x[r] = NaN
                    ELSE IF ref > 0 /\ alt > 0
                         THEN loc.x[r].k = "fin" /\ loc.x[r].n < 0
                         ELSE loc.x[r] = Zero
        IN  C11_Formula(ByCounts)

C11_Witness ==
    /\ fn = "patterson_f2" /\ pc = "done"
    /\ aca = acb
    /\ aca.rows = <<<<1, 1>>, <<0, MaxAN>>>>
    /\ loc.x = <<Fin(-1, 2), Zero>>

\* ------------------------------------------- properties: genotype predicates

Called(names) == names \subseteq DOMAIN out
Entries == 1..Len(g.calls)

\* C12: on the haploid 2-dimensional, the diploid and the general (ploidy 3
\* or more) path, is_hom is true of a call exactly when is_hom_ref or
\* is_hom_alt is, and is_hom is never true of a call that is_called reports
\* missing.
C12_HomIsRefOrAlt ==
    (fn = "gt" /\ (g.ndim = 2 \/ (g.ndim = 3 /\ g.shape2 >= 2))) =>
        /\ Called({"is_hom", "is_hom_ref", "is_hom_alt"}) =>
             \A c \in Entries :
                out["is_hom"][c] <=> (out["is_hom_ref"][c] \/ out["is_hom_alt"][c])
        /\ Called({"is_hom", "is_called"}) =>
             \A c \in Entries : ~out["is_called"][c] => ~out["is_hom"][c]

\* C13: for an array of 2 dimensions, or of 3 with ploidy 1 or more, no
\* predicate raises, is_missing is the elementwise negation of is_called, and
\* every call that is_called reports called is exactly one of is_hom, is_het.
C13_MissingAndHomHet ==
    (fn = "gt" /\ (g.ndim = 2 \/ (g.ndim = 3 /\ g.shape2 >= 1))) =>
        /\ pc # "raised"
        /\ \A nm \in DOMAIN out : Len(out[nm]) = Len(g.calls)
        /\ Called({"is_called", "is_missing"}) =>
             \A c \in Entries : out["is_missing"][c] <=> ~out["is_called"][c]
        /\ Called({"is_called", "is_hom", "is_het"}) =>
             \A c \in Entries :
                out["is_called"][c] => (out["is_hom"][c] <=> ~out["is_het"][c])

C13_Witness ==
    /\ fn = "gt"
    /\ g = [ndim |-> 3, shape2 |-> 2, calls |-> <<<<0, 1>>, <<-1, -1>>>>]
    /\ Called({"is_called", "is_missing", "is_hom", "is_het"})
    /\ out["is_called"] = <<TRUE, FALSE>>
    /\ out["is_missing"] = <<FALSE, TRUE>>
    /\ out["is_hom"] = <<FALSE, FALSE>>
    /\ out["is_het"] = <<TRUE, FALSE>>

====
